---------------------------- MODULE Spec2Model ----------------------------
(***************************************************************************)
(* Model of home_ownership.py: the cash-flow projection of buying a home   *)
(* (get_upfront_costs, get_mortgage_cost_stream, get_ownership_cost_stream,*)
(* investment_return, investment_return_on_stream) and the two scenario    *)
(* evaluations Home.simulate and Rental.simulate.                          *)
(*                                                                         *)
(* Numbers.  The program computes in Python floats: every multiplication,  *)
(* division and power is rounded to the nearest representable value.  The  *)
(* model keeps that finite precision at a reduced width: a real x is the   *)
(* integer round(x * Scale), money is counted in thousands, and Mul, Div   *)
(* and Pow round to the nearest multiple of 1/Scale after every operation. *)
(* Additions and subtractions of such values are exact.  Integers of the   *)
(* program (years, mortgage_term, loop counters) are plain integers.       *)
(*                                                                         *)
(* Control.  Each function body is cut into steps at its loops; pc names   *)
(* the statement the interpreter is at.  The caller evaluates the averted- *)
(* rent scenario and then the rental-income scenario on the same           *)
(* dictionary d, which holds both personal_rent and income_rent.           *)
(***************************************************************************)
EXTENDS Integers, Sequences, FiniteSets

\* ------------------------------------------------------------------ bounds

\* Fractional resolution of the reduced-precision arithmetic.
Scale == 10000
\* Longest horizon d['years'] explored; 0 is included (no validation exists).
MaxYears == 2
\* Longest d['mortgage_term'] explored, in years.
MaxTerm == 2

\* ------------------------------------------------------------- arithmetic

One == Scale

\* x per mille as a scaled number: PerMille(37) is 0.037.
PerMille(x) == (x * Scale) \div 1000

Abs(x) == IF x < 0 THEN -x ELSE x

\* n / dd rounded to the nearest integer, dd # 0.
RoundDiv(n, dd) ==
    IF dd > 0 THEN (2 * n + dd) \div (2 * dd)
              ELSE (2 * (-n) + (-dd)) \div (2 * (-dd))

\* Float product a * b.  The operand of larger magnitude is split into its
\* whole and fractional part so that no intermediate exceeds 31 bits; the
\* result is the exact product rounded once.
MulSplit(big, small) ==
    (big \div Scale) * small + RoundDiv((big % Scale) * small, Scale)

Mul(a, b) == IF Abs(a) >= Abs(b) THEN MulSplit(a, b) ELSE MulSplit(b, a)

\* Float quotient a / b of two floats, b # 0.
Div(a, b) == RoundDiv(a * Scale, b)

\* Float divided by a Python int k (x / 12).
DivInt(a, k) == RoundDiv(a, k)

\* x ** n for an integer n >= 0.
RECURSIVE Pow(_, _)
Pow(x, n) == IF n = 0 THEN One ELSE Mul(Pow(x, n - 1), x)

\* math.pow(x, -n) for n >= 0.
PowNeg(x, n) == Div(One, Pow(x, n))

\* numpy's array.sum().
RECURSIVE Sum(_)
Sum(s) == IF s = <<>> THEN 0 ELSE Head(s) + Sum(Tail(s))

\* numpy's pointwise a + b and a - b.
SeqAdd(a, b) == [k \in 1..Len(a) |-> a[k] + b[k]]
SeqSub(a, b) == [k \in 1..Len(a) |-> a[k] - b[k]]

\* [x] * n
Repeat(x, n) == [k \in 1..n |-> x]

\* ---------------------------------------------------------- configuration

\* The dictionaries d the model explores.  Nothing in the program validates
\* d, so values outside the documented domain are included.
Configs ==
    [ home_price            : {-100 * Scale, 100 * Scale},
      down_payment          : {PerMille(200), One},
      maintenance           : {PerMille(10)},
      home_owners_insurance : {PerMille(6)},
      mortgage_term         : 1..MaxTerm,
      mortgage_rate         : {0, PerMille(30), PerMille(90)},
      property_tax          : {PerMille(17)},
      marginal_tax_rate     : {PerMille(250), One},
      stock_market          : {PerMille(-60), PerMille(60)},
      house_appreciation    : {PerMille(120)},
      years                 : 0..MaxYears,
      income_rent           : {PerMille(900), PerMille(1200)},
      personal_rent         : {PerMille(900)},
      rent_rate             : {PerMille(30)} ]

\* -------------------------------------------------------------------- state

VARIABLES
    d,                \* the dictionary both scenario objects are built on
    self,             \* the class whose simulate() is running
    pc,               \* the statement reached
    ret,              \* which call of investment_return_on_stream is active
    year, month,      \* the loop counters of the function running
    down_payment, down_payment_opportunity_cost,
    principal, rate, monthly_payment, principal_left,
    principal_cost, interest_cost, total_cost,
    home_value, ownership,
    rent, rents, averted_rents,
    amounts, idx, months_left, total,
    ownership_opportunity_cost, rents_investment_return,
    derived_income_stream_investment_gain,
    mortgage_left, home_return, bottom_line_buying, bottom_line

ctrlVars     == <<d, self, pc, ret, year, month>>
upfrontVars  == <<down_payment, down_payment_opportunity_cost>>
mortgageVars == <<principal, rate, monthly_payment, principal_left,
                  principal_cost, interest_cost, total_cost>>
ownVars      == <<home_value, ownership>>
rentVars     == <<rent, rents, averted_rents>>
streamVars   == <<amounts, idx, months_left, total>>
resultVars   == <<ownership_opportunity_cost, rents_investment_return,
                  derived_income_stream_investment_gain,
                  mortgage_left, home_return, bottom_line_buying, bottom_line>>
vars == <<ctrlVars, upfrontVars, mortgageVars, ownVars, rentVars,
          streamVars, resultVars>>

Init ==
    /\ d \in Configs
    /\ self = "Home"
    /\ pc = "upfront"
    /\ ret = "none"
    /\ year = 0 /\ month = 0
    /\ down_payment = 0 /\ down_payment_opportunity_cost = 0
    /\ principal = 0 /\ rate = 0 /\ monthly_payment = 0 /\ principal_left = 0
    /\ principal_cost = <<>> /\ interest_cost = <<>> /\ total_cost = <<>>
    /\ home_value = 0 /\ ownership = <<>>
    /\ rent = 0 /\ rents = <<>> /\ averted_rents = <<>>
    /\ amounts = <<>> /\ idx = 0 /\ months_left = 0 /\ total = 0
    /\ ownership_opportunity_cost = 0 /\ rents_investment_return = 0
    /\ derived_income_stream_investment_gain = 0
    /\ mortgage_left = 0 /\ home_return = 0
    /\ bottom_line_buying = 0 /\ bottom_line = 0


\* ------------------------------------------------------- investment_return

\* investment_return(amount, annual_rate, months):
\*   rate = 1 + annual_rate/12;  return amount * rate ** months - amount
investment_return(amount, annual_rate, months) ==
    Mul(amount, Pow(One + DivInt(annual_rate, 12), months)) - amount

\* ------------------------------------------------------- get_upfront_costs

\* down_payment = d['home_price'] * d['down_payment']
upfront_down_payment(dd) == Mul(dd.home_price, dd.down_payment)

\* investment_return(down_payment, d['stock_market'], d['years'] * 12)
upfront_opportunity_cost(dd, dp) ==
    investment_return(dp, dd.stock_market, dd.years * 12)

\* get_upfront_costs(self.d), the first statement of either simulate().
get_upfront_costs ==
    /\ pc = "upfront"
    /\ down_payment' = upfront_down_payment(d)
    /\ down_payment_opportunity_cost' =
           upfront_opportunity_cost(d, upfront_down_payment(d))
    /\ pc' = "mortgage"
    /\ UNCHANGED <<d, self, ret, year, month, mortgageVars, ownVars,
                   rentVars, streamVars, resultVars>>

\* ------------------------------------------------ get_mortgage_cost_stream

\* The loan taken for the down payment instead of for the rest of the price.
loan_principal_of_down_payment(dd) == Mul(dd.home_price, dd.down_payment)

\* principal = d['home_price'] * (1 - d['down_payment'])
loan_principal(dd) == Mul(dd.home_price, One - dd.down_payment)

\* rate = d['mortgage_rate'] / 12
monthly_rate(dd) == DivInt(dd.mortgage_rate, 12)

\* num_payments = d['mortgage_term'] * 12
num_payments(dd) == dd.mortgage_term * 12

\* The divisor 1 - math.pow(1 + rate, -num_payments) of the payment formula.
payment_divisor(dd) ==
    One - PowNeg(One + monthly_rate(dd), num_payments(dd))

\* monthly_payment = principal * (rate / (1 - math.pow(1 + rate, -num_payments)))
payment_formula(dd) ==
    Mul(loan_principal(dd), Div(monthly_rate(dd), payment_divisor(dd)))

\* Lines 97-105 when the divisor is not zero: the locals are set and the
\* loop over the months begins.
mortgage_payment_formula ==
    /\ pc = "mortgage"
    /\ payment_divisor(d) # 0
    /\ principal' = loan_principal(d)
    /\ rate' = monthly_rate(d)
    /\ monthly_payment' = payment_formula(d)
    /\ principal_left' = loan_principal(d)
    /\ principal_cost' = <<>>
    /\ interest_cost' = <<>>
    /\ total_cost' = <<>>
    /\ year' = 0 /\ month' = 0
    /\ pc' = "mortgage_loop"
    /\ UNCHANGED <<d, self, ret, upfrontVars, ownVars, rentVars,
                   streamVars, resultVars>>

\* Line 100 when the divisor is zero: the float division raises
\* ZeroDivisionError, which nothing catches; simulate() ends with it.
mortgage_zero_division ==
    /\ pc = "mortgage"
    /\ payment_divisor(d) = 0
    /\ pc' = "ZeroDivisionError"
    /\ UNCHANGED <<d, self, ret, year, month, upfrontVars, mortgageVars,
                   ownVars, rentVars, streamVars, resultVars>>

\* for year in range(d['years']): for month in range(12): the counters after
\* one more pass of the inner loop body.
NextYear(y, m) == IF m = 11 THEN y + 1 ELSE y
NextMonth(m) == IF m = 11 THEN 0 ELSE m + 1

\* The test of line 109.
paid_off(left) == left <= 0

\* interest_portion = rate * principal_left
interest_portion(r, left) == Mul(r, left)

\* The loop left as soon as the loan is paid off, nothing appended.
mortgage_paid_off_break ==
    /\ pc = "mortgage_loop"
    /\ year < d.years
    /\ principal_left <= 0
    /\ year' = d.years
    /\ month' = 0
    /\ UNCHANGED <<d, self, pc, ret, upfrontVars, mortgageVars, ownVars,
                   rentVars, streamVars, resultVars>>

\* Lines 109-111: nothing is left to pay, both streams get a 0.
mortgage_paid_off_month ==
    /\ pc = "mortgage_loop"
    /\ year < d.years
    /\ paid_off(principal_left)
    /\ principal_cost' = Append(principal_cost, 0)
    /\ interest_cost' = Append(interest_cost, 0)
    /\ year' = NextYear(year, month)
    /\ month' = NextMonth(month)
    /\ UNCHANGED <<d, self, pc, ret, principal, rate, monthly_payment,
                   principal_left, total_cost, upfrontVars, ownVars,
                   rentVars, streamVars, resultVars>>

\* Lines 112-117: one payment, split into interest and principal.
mortgage_payment_month ==
    /\ pc = "mortgage_loop"
    /\ year < d.years
    /\ ~paid_off(principal_left)
    /\ LET interest == interest_portion(rate, principal_left)
           principal_portion == monthly_payment - interest
       IN  /\ principal_left' = principal_left - principal_portion
           /\ principal_cost' = Append(principal_cost, principal_portion)
           /\ interest_cost' =
                  Append(interest_cost, Mul(interest, One - d.marginal_tax_rate))
    /\ year' = NextYear(year, month)
    /\ month' = NextMonth(month)
    /\ UNCHANGED <<d, self, pc, ret, principal, rate, monthly_payment,
                   total_cost, upfrontVars, ownVars, rentVars, streamVars,
                   resultVars>>

\* Lines 119-130: total_cost = principal_cost + interest_cost and the return;
\* the caller goes on to get_ownership_cost_stream, whose lines 72-73 set
\* home_value and the empty list.
mortgage_return ==
    /\ pc = "mortgage_loop"
    /\ year >= d.years
    /\ total_cost' = SeqAdd(principal_cost, interest_cost)
    /\ home_value' = d.home_price
    /\ ownership' = <<>>
    /\ year' = 0 /\ month' = 0
    /\ pc' = "ownership_loop"
    /\ UNCHANGED <<d, self, ret, principal, rate, monthly_payment,
                   principal_left, principal_cost, interest_cost,
                   upfrontVars, rentVars, streamVars, resultVars>>

\* ----------------------------------------------- get_ownership_cost_stream

\* Lines 75-78: the cost of one year of owning a home worth value.
yearly_cost(dd, value) ==
      Mul(Mul(value, dd.property_tax), One - dd.marginal_tax_rate)
    + Mul(value, dd.maintenance)
    + Mul(value, dd.home_owners_insurance)

\* Lines 74-81: one pass of the loop over the years.
ownership_year ==
    /\ pc = "ownership_loop"
    /\ year < d.years
    /\ ownership' = ownership \o Repeat(DivInt(yearly_cost(d, home_value), 12), 12)
    /\ home_value' = Mul(home_value, One + d.house_appreciation)
    /\ year' = year + 1
    /\ UNCHANGED <<d, self, pc, ret, month, upfrontVars, mortgageVars,
                   rentVars, streamVars, resultVars>>

\* Lines 83-87: the stream is returned to simulate().
ownership_return ==
    /\ pc = "ownership_loop"
    /\ year >= d.years
    /\ pc' = "costs_done"
    /\ UNCHANGED <<d, self, ret, year, month, upfrontVars, mortgageVars,
                   ownVars, rentVars, streamVars, resultVars>>


\* --------------------------------------------- investment_return_on_stream

\* The count started one month short.
first_months_left_short(a) == Len(a) - 1

\* months_left = len(amounts), the value before the first element.
first_months_left(a) == Len(a)

\* Lines 44-46: one pass of `for amount in amounts`; idx counts the elements
\* consumed.  Every call in the program passes d['stock_market'].
investment_return_on_stream_step ==
    /\ pc = "stream_loop"
    /\ idx < Len(amounts)
    /\ total' = total + investment_return(amounts[idx + 1], d.stock_market,
                                          months_left)
    /\ months_left' = months_left - 1
    /\ idx' = idx + 1
    /\ UNCHANGED <<ctrlVars, amounts, upfrontVars, mortgageVars, ownVars,
                   rentVars, resultVars>>

\* Line 47: return total to the statement of simulate() that called.
investment_return_on_stream_return ==
    /\ pc = "stream_loop"
    /\ idx >= Len(amounts)
    /\ pc' = ret
    /\ UNCHANGED <<d, self, ret, year, month, upfrontVars, mortgageVars,
                   ownVars, rentVars, streamVars, resultVars>>

\* ------------------------------------------------------- the house sale

\* mortgage_left = home_price * (1 - down_payment) - mortgage_principal_stream.sum()
sale_mortgage_left(dd, principal_stream) ==
    Mul(dd.home_price, One - dd.down_payment) - Sum(principal_stream)

\* home_return = investment_return(home_price, house_appreciation, years * 12)
sale_home_return(dd) ==
    investment_return(dd.home_price, dd.house_appreciation, dd.years * 12)

\* ------------------------------------------------------------ Home.simulate

\* The rent raised after every month instead of after every year.
rent_after_every_month(dd, r, m) == Mul(r, One + dd.rent_rate)

\* rent *= 1 + d['rent_rate'], executed after the twelfth month of a year.
rent_after_month(dd, r, m) ==
    IF m = 11 THEN Mul(r, One + dd.rent_rate) ELSE r

\* Lines 207-209.
buying_bottom_line(own, mort, dp, dpoc, hv, hr, left) ==
    - Sum(own) - Sum(mort) - dp - dpoc + hv + hr - left

\* The bottom line without the gain on the derived stream.
Home_bottom_line_without_gain(buying, gain, renting) == buying - renting

\* Line 231, with bottom_line_renting = - rents.sum() of line 215.
Home_bottom_line_value(buying, gain, renting) == (buying + gain) - renting

\* Lines 200-211, then line 214 enters get_rent_stream (lines 172-175).
Home_house_sale ==
    /\ pc = "costs_done"
    /\ self = "Home"
    /\ mortgage_left' = sale_mortgage_left(d, principal_cost)
    /\ home_return' = sale_home_return(d)
    /\ bottom_line_buying' =
           buying_bottom_line(ownership, total_cost, down_payment,
                              down_payment_opportunity_cost, d.home_price,
                              sale_home_return(d),
                              sale_mortgage_left(d, principal_cost))
    /\ rent' = d.personal_rent
    /\ rents' = <<>>
    /\ year' = 0 /\ month' = 0
    /\ pc' = "rent_loop"
    /\ UNCHANGED <<d, self, ret, averted_rents, upfrontVars, mortgageVars,
                   ownVars, streamVars, ownership_opportunity_cost,
                   rents_investment_return,
                   derived_income_stream_investment_gain, bottom_line>>

\* Lines 177-180 of Home.get_rent_stream: one month.
Home_rent_month ==
    /\ pc = "rent_loop"
    /\ self = "Home"
    /\ year < d.years
    /\ rents' = Append(rents, rent)
    /\ rent' = rent_after_month(d, rent, month)
    /\ year' = NextYear(year, month)
    /\ month' = NextMonth(month)
    /\ UNCHANGED <<d, self, pc, ret, averted_rents, upfrontVars,
                   mortgageVars, ownVars, streamVars, resultVars>>

\* Lines 182-185: the averted rents are returned; lines 225-226 then call
\* investment_return_on_stream(rents - mortgage_total_stream -
\* ownership_stream, stock_market) (lines 42-43 of the callee).
Home_rent_return ==
    /\ pc = "rent_loop"
    /\ self = "Home"
    /\ year >= d.years
    /\ averted_rents' = rents
    /\ amounts' = SeqSub(SeqSub(rents, total_cost), ownership)
    /\ months_left' = first_months_left(SeqSub(SeqSub(rents, total_cost), ownership))
    /\ total' = 0
    /\ idx' = 0
    /\ ret' = "Home_bottom_line"
    /\ pc' = "stream_loop"
    /\ UNCHANGED <<d, self, year, month, rent, rents, upfrontVars,
                   mortgageVars, ownVars, resultVars>>

\* Lines 226-234: the gain on the derived stream and the bottom line.
Home_bottom_line ==
    /\ pc = "Home_bottom_line"
    /\ derived_income_stream_investment_gain' = total
    /\ bottom_line' = Home_bottom_line_value(bottom_line_buying, total, - Sum(rents))
    /\ pc' = "returned"
    /\ UNCHANGED <<d, self, ret, year, month, upfrontVars, mortgageVars,
                   ownVars, rentVars, streamVars, ownership_opportunity_cost,
                   rents_investment_return, mortgage_left, home_return,
                   bottom_line_buying>>

\* ---------------------------------------------------------- Rental.simulate

\* The caller, done with Home(d).simulate(), calls Rental(d).simulate(): a
\* fresh frame; only d and what Home returned survive.
Rental_simulate ==
    /\ pc = "returned"
    /\ self = "Home"
    /\ self' = "Rental"
    /\ pc' = "upfront"
    /\ ret' = "none"
    /\ year' = 0 /\ month' = 0
    /\ down_payment' = 0 /\ down_payment_opportunity_cost' = 0
    /\ principal' = 0 /\ rate' = 0 /\ monthly_payment' = 0
    /\ principal_left' = 0
    /\ principal_cost' = <<>> /\ interest_cost' = <<>> /\ total_cost' = <<>>
    /\ home_value' = 0 /\ ownership' = <<>>
    /\ rent' = 0 /\ rents' = <<>>
    /\ amounts' = <<>> /\ idx' = 0 /\ months_left' = 0 /\ total' = 0
    /\ ownership_opportunity_cost' = 0 /\ rents_investment_return' = 0
    /\ derived_income_stream_investment_gain' = 0
    /\ mortgage_left' = 0 /\ home_return' = 0
    /\ bottom_line_buying' = 0 /\ bottom_line' = 0
    /\ UNCHANGED <<d, averted_rents>>

\* rents.append(rent * (1 - d['marginal_tax_rate']))
rental_income(dd, r) == Mul(r, One - dd.marginal_tax_rate)

\* Lines 332-336.
Rental_bottom_line_value(own, mort, ooc, dp, dpoc, rs, rir, hv, hr, left) ==
    - Sum(own) - Sum(mort) - ooc - dp - dpoc + Sum(rs) + rir + hv + hr - left

\* Line 313 calls investment_return_on_stream(mortgage_total_stream +
\* ownership_stream, stock_market).
Rental_ownership_opportunity_cost ==
    /\ pc = "costs_done"
    /\ self = "Rental"
    /\ amounts' = SeqAdd(total_cost, ownership)
    /\ months_left' = first_months_left(SeqAdd(total_cost, ownership))
    /\ total' = 0
    /\ idx' = 0
    /\ ret' = "Rental_income"
    /\ pc' = "stream_loop"
    /\ UNCHANGED <<d, self, year, month, upfrontVars, mortgageVars, ownVars,
                   rentVars, resultVars>>

\* Line 313 stores the result; line 319 enters get_rent_stream (283-286).
Rental_income ==
    /\ pc = "Rental_income"
    /\ ownership_opportunity_cost' = total
    /\ rent' = d.income_rent
    /\ rents' = <<>>
    /\ year' = 0 /\ month' = 0
    /\ pc' = "rent_loop"
    /\ UNCHANGED <<d, self, ret, averted_rents, upfrontVars, mortgageVars,
                   ownVars, streamVars, rents_investment_return,
                   derived_income_stream_investment_gain, mortgage_left,
                   home_return, bottom_line_buying, bottom_line>>

\* Lines 288-291 of Rental.get_rent_stream: one month.
Rental_rent_month ==
    /\ pc = "rent_loop"
    /\ self = "Rental"
    /\ year < d.years
    /\ rents' = Append(rents, rental_income(d, rent))
    /\ rent' = rent_after_month(d, rent, month)
    /\ year' = NextYear(year, month)
    /\ month' = NextMonth(month)
    /\ UNCHANGED <<d, self, pc, ret, averted_rents, upfrontVars,
                   mortgageVars, ownVars, streamVars, resultVars>>

\* Lines 293-298: the income stream is returned; line 320 calls
\* investment_return_on_stream(rents, stock_market).
Rental_rent_return ==
    /\ pc = "rent_loop"
    /\ self = "Rental"
    /\ year >= d.years
    /\ amounts' = rents
    /\ months_left' = first_months_left(rents)
    /\ total' = 0
    /\ idx' = 0
    /\ ret' = "Rental_bottom_line"
    /\ pc' = "stream_loop"
    /\ UNCHANGED <<d, self, year, month, upfrontVars, mortgageVars, ownVars,
                   rentVars, resultVars>>

\* Lines 320-339: the return on the rents, the house sale, the bottom line.
Rental_bottom_line ==
    /\ pc = "Rental_bottom_line"
    /\ rents_investment_return' = total
    /\ mortgage_left' = sale_mortgage_left(d, principal_cost)
    /\ home_return' = sale_home_return(d)
    /\ bottom_line' =
           Rental_bottom_line_value(ownership, total_cost,
                                    ownership_opportunity_cost, down_payment,
                                    down_payment_opportunity_cost, rents, total,
                                    d.home_price, sale_home_return(d),
                                    sale_mortgage_left(d, principal_cost))
    /\ pc' = "returned"
    /\ UNCHANGED <<d, self, ret, year, month, upfrontVars, mortgageVars,
                   ownVars, rentVars, streamVars, ownership_opportunity_cost,
                   derived_income_stream_investment_gain, bottom_line_buying>>

\* ------------------------------------------------------------ specification

Next ==
    \/ get_upfront_costs
    \/ mortgage_payment_formula
    \/ mortgage_zero_division
    \/ mortgage_paid_off_month
    \/ mortgage_payment_month
    \/ mortgage_return
    \/ ownership_year
    \/ ownership_return
    \/ investment_return_on_stream_step
    \/ investment_return_on_stream_return
    \/ Home_house_sale
    \/ Home_rent_month
    \/ Home_rent_return
    \/ Home_bottom_line
    \/ Rental_simulate
    \/ Rental_ownership_opportunity_cost
    \/ Rental_income
    \/ Rental_rent_month
    \/ Rental_rent_return
    \/ Rental_bottom_line

Spec == Init /\ [][Next]_vars


\* ---------------------------------------------- vocabulary of the properties

\* The domain the specification states for a configuration.
Valid(dd) ==
    /\ dd.home_price > 0
    /\ dd.down_payment >= 0 /\ dd.down_payment <= One
    /\ dd.mortgage_term > 0
    /\ dd.mortgage_rate >= 0
    /\ dd.marginal_tax_rate >= 0 /\ dd.marginal_tax_rate < One
    /\ dd.years > 0

\* get_mortgage_cost_stream is inside its loop, or has returned.
MortgageStarted ==
    pc \notin {"upfront", "mortgage", "ZeroDivisionError"}
MortgageReturned == MortgageStarted /\ pc # "mortgage_loop"
OwnershipReturned == MortgageReturned /\ pc # "ownership_loop"
\* get_rent_stream of the running simulate() has returned.
RentReturned ==
    \/ pc \in {"Home_bottom_line", "Rental_bottom_line", "returned"}
    \/ pc = "stream_loop" /\ ret \in {"Home_bottom_line", "Rental_bottom_line"}
\* investment_return_on_stream has returned to its caller's statement.
StreamReturned ==
    pc \in {"Home_bottom_line", "Rental_income", "Rental_bottom_line"}

\* Rounding tolerance for sums of money: one unit, 1% of the home price.
\* What the rounding of the amortization leaves unpaid or overpaid at the
\* end of the term stays below it; one monthly payment is several units.
Tolerance == Scale

\* The balance after the first k months, from the principal stream.
BalanceAfter(k) == principal - Sum(SubSeq(principal_cost, 1, k))

AllZero(s) == \A k \in 1..Len(s) : s[k] = 0

\* Sum over the elements k..Len(a) of a of investment_return(a[k],
\* annual_rate, Len(a) - k + 1): element k is compounded for the months from
\* its own to the end of the stream.
RECURSIVE CompoundedFrom(_, _, _)
CompoundedFrom(a, annual_rate, k) ==
    IF k > Len(a) THEN 0
    ELSE investment_return(a[k], annual_rate, Len(a) - k + 1)
         + CompoundedFrom(a, annual_rate, k + 1)

\* The rent of year y (0-based): base, scaled by (1 + growth) once per year.
RECURSIVE YearRent(_, _, _)
YearRent(base, growth, y) ==
    IF y = 0 THEN base ELSE Mul(YearRent(base, growth, y - 1), One + growth)

\* The bottom line as the specification writes it, the sale value being
\* home_value + home_return of the house sale.
PlainBottomLine ==
    Sum(rents) - Sum(ownership) - Sum(total_cost) - down_payment
    - down_payment_opportunity_cost + (d.home_price + home_return)
    - mortgage_left

\* ------------------------------------------------------------------ claims

\* C1: once the remaining principal is <= 0 every later principal and
\* interest entry is 0, no entry is negative, and the principal paid so far
\* never exceeds the original principal (beyond the rounding tolerance).
C1_NeverOverpaid ==
    MortgageStarted =>
        /\ \A j \in 1..Len(principal_cost) :
              /\ principal_cost[j] >= 0
              /\ interest_cost[j] >= 0
              /\ \A i \in 0..(j - 1) :
                    BalanceAfter(i) <= 0 =>
                        principal_cost[j] = 0 /\ interest_cost[j] = 0
        /\ principal >= 0 => Sum(principal_cost) <= principal + Tolerance

\* C2: with mortgage_rate = 0 and a positive principal the computation does
\* not fail with a division by zero, every principal entry within the term
\* is principal / num_payments and every interest entry is 0.
C2_ZeroRateStream ==
    (Valid(d) /\ d.mortgage_rate = 0 /\ loan_principal(d) > 0) =>
        /\ pc # "ZeroDivisionError"
        /\ MortgageReturned =>
              /\ AllZero(interest_cost)
              /\ \A j \in 1..Len(principal_cost) :
                    j <= num_payments(d) =>
                        principal_cost[j] = DivInt(loan_principal(d), num_payments(d))

\* C3: with years = 0, home_price < 0 or marginal_tax_rate = 1.0, simulate()
\* never runs to its end and returns a result (it ends in a validation
\* error instead).
C3_InvalidConfigRejected ==
    (d.years = 0 \/ d.home_price < 0 \/ d.marginal_tax_rate = One) =>
        pc # "returned"

\* C4 as claimed: the bottom line of either simulate() is rents.sum -
\* ownership.sum - mortgage_total.sum - down_payment -
\* down_payment_opportunity_cost + home sale value - remaining principal, and
\* nothing else.
C4_BottomLineNoOtherTerm ==
    (pc = "returned" /\ Valid(d)) => bottom_line = PlainBottomLine

\* C4 as amended: the bottom line is that sum plus the investment return on
\* the streams: in Home.simulate the return on the stream rents -
\* mortgage_total - ownership, in Rental.simulate the return on the rents
\* minus the return on the stream mortgage_total + ownership.
C4_BottomLineWithStreamReturns ==
    pc = "returned" =>
        bottom_line = PlainBottomLine +
            (IF self = "Home"
             THEN CompoundedFrom(SeqSub(SeqSub(rents, total_cost), ownership),
                                 d.stock_market, 1)
             ELSE CompoundedFrom(rents, d.stock_market, 1)
                  - CompoundedFrom(SeqAdd(total_cost, ownership),
                                   d.stock_market, 1))

C4_Witness ==
    /\ pc = "returned" /\ self = "Rental" /\ Valid(d)
    /\ d.years >= 2
    /\ rents_investment_return # 0 /\ ownership_opportunity_cost # 0

\* C5: the home sale value used in the bottom line is home_price * (1 +
\* house_appreciation) ^ years, appreciation compounded once per year.
C5_SaleValueCompoundsYearly ==
    (pc = "returned" /\ Valid(d)) =>
        Abs((d.home_price + home_return)
            - Mul(d.home_price, Pow(One + d.house_appreciation, d.years)))
          <= Tolerance

\* C6: for a valid loan with mortgage_rate > 0 and a horizon of at least the
\* term, the principal stream sums to the original principal within the
\* rounding tolerance, so mortgage_left at the sale is 0.
C6_LoanRetiredAtHorizon ==
    (Valid(d) /\ d.mortgage_rate > 0 /\ d.years * 12 >= num_payments(d)) =>
        /\ MortgageReturned =>
              Abs(Sum(principal_cost) - loan_principal(d)) <= Tolerance
        /\ pc = "returned" => Abs(mortgage_left) <= Tolerance

\* C7: investment_return_on_stream compounds the first element for the full
\* length n of the stream and each later element for one month fewer, the
\* last one for 1 month; its result is the sum of investment_return(amount,
\* annual_rate, months remaining), whatever the sign of the amounts, and 0
\* for an all-zero stream.
C7_StreamCompounding ==
    /\ pc = "stream_loop" =>
          /\ idx <= Len(amounts)
          /\ months_left = Len(amounts) - idx
          /\ idx = 1 => total = investment_return(amounts[1], d.stock_market,
                                                  Len(amounts))
    /\ StreamReturned =>
          /\ idx = Len(amounts)
          /\ months_left = 0
          /\ total = CompoundedFrom(amounts, d.stock_market, 1)
          /\ AllZero(amounts) => total = 0

C7_Witness ==
    /\ StreamReturned
    /\ Len(amounts) >= 12
    /\ \E k \in 1..Len(amounts) : amounts[k] < 0
    /\ total # 0

\* C8: every stream returned has exactly years * 12 entries, whatever the
\* mortgage term and whether or not the loan is paid off before the end.
C8_StreamLengths ==
    /\ MortgageReturned =>
          /\ Len(principal_cost) = d.years * 12
          /\ Len(interest_cost) = d.years * 12
          /\ Len(total_cost) = d.years * 12
    /\ OwnershipReturned => Len(ownership) = d.years * 12
    /\ RentReturned => Len(rents) = d.years * 12
    /\ self = "Rental" => Len(averted_rents) = d.years * 12

C8_Witness ==
    /\ pc = "returned" /\ self = "Rental"
    /\ d.mortgage_term < d.years
    /\ principal > 0 /\ principal_left <= 0
    /\ Len(total_cost) = d.years * 12

\* C9: the rent stream is flat within a year and grows by (1 + rent_rate)
\* at each year boundary only, and with income_rent = personal_rent every
\* entry of the rental income stream is the averted-rent entry times
\* (1 - marginal_tax_rate).
C9_RentStreams ==
    /\ (self = "Rental" \/ RentReturned) =>
          \A y \in 0..(d.years - 1) : \A m \in 1..12 :
              /\ 12 * y + m <= Len(averted_rents)
              /\ averted_rents[12 * y + m] =
                     YearRent(d.personal_rent, d.rent_rate, y)
    /\ (self = "Rental" /\ RentReturned) =>
          /\ \A y \in 0..(d.years - 1) : \A m \in 1..12 :
                /\ 12 * y + m <= Len(rents)
                /\ rents[12 * y + m] =
                       Mul(YearRent(d.income_rent, d.rent_rate, y),
                           One - d.marginal_tax_rate)
          /\ d.income_rent = d.personal_rent =>
                \A k \in 1..Len(rents) :
                    /\ k <= Len(averted_rents)
                    /\ rents[k] =
                           Mul(averted_rents[k], One - d.marginal_tax_rate)

C9_Witness ==
    /\ pc = "returned" /\ self = "Rental"
    /\ d.years >= 2
    /\ d.income_rent = d.personal_rent
    /\ d.marginal_tax_rate > 0 /\ d.marginal_tax_rate < One
    /\ rents[13] > rents[12]

\* C10: with down_payment = 1.0 and mortgage_rate > 0 the principal,
\* interest and total streams are all zeros, the down payment is the full
\* home price and its opportunity cost is taken over years * 12 months.
C10_AllCashPurchase ==
    (d.down_payment = One /\ d.mortgage_rate > 0) =>
        /\ pc # "upfront" =>
              /\ down_payment = d.home_price
              /\ down_payment_opportunity_cost =
                     Mul(d.home_price,
                         Pow(One + DivInt(d.stock_market, 12), d.years * 12))
                     - d.home_price
        /\ MortgageStarted => AllZero(principal_cost) /\ AllZero(interest_cost)
        /\ MortgageReturned =>
              AllZero(total_cost) /\ Len(total_cost) = d.years * 12

C10_Witness ==
    /\ pc = "returned"
    /\ d.down_payment = One /\ d.mortgage_rate > 0
    /\ d.home_price > 0 /\ d.years >= 1
    /\ Len(total_cost) = d.years * 12
    /\ down_payment_opportunity_cost # 0

=============================================================================
